---- MODULE Spec2Model ----
(***************************************************************************)
(* Model of the mosaic assembly of stitchr (src/stitchr.go): the function  *)
(* mosaic, which plans the snake placement of rows*cols tiles on a canvas, *)
(* and sumImages, which composites one tile onto the canvas.               *)
(*                                                                         *)
(* One run of mosaic is one behaviour: the arguments are chosen in Init,   *)
(* every loop iteration of mosaic is one action, and each call of          *)
(* sumImages is applied whole inside the iteration that makes it.          *)
(***************************************************************************)
EXTENDS Integers, Sequences, FiniteSets

VARIABLES imgs, rows, cols, overlapX, overlapY, snake,
          pc, idx, r, c, out, err, ret, calls, skipped, written

args == <<imgs, rows, cols, overlapX, overlapY, snake>>
vars == <<imgs, rows, cols, overlapX, overlapY, snake,
          pc, idx, r, c, out, err, ret, calls, skipped, written>>

----------------------------------------------------------------------------
(* Bounds of the model. *)

\* rows and cols range over 1..MaxGrid
MaxGrid == 3

\* tile width and height range over 1..MaxDim; overlaps over -1..MaxDim
MaxDim == 2

----------------------------------------------------------------------------
(* Pixels: color.RGBA has four uint8 channels. *)

\* the literal 255 the sums are compared with
ChannelMax == 255

\* uint8 arithmetic is modulo 2^8
Uint8Mod == 256

Min(a, b) == IF a < b THEN a ELSE b

Max(a, b) == IF a > b THEN a ELSE b

\* color.RGBA{} : the zero value, also what RGBAAt returns outside the image
ZeroRGBA == [R |-> 0, G |-> 0, B |-> 0, A |-> 0]

\* color.RGBAModel.Convert of an opaque gray pixel of 8-bit intensity v
SrcRGBA(v) == [R |-> v, G |-> v, B |-> v, A |-> ChannelMax]

\* a tile: an image of w x h pixels, every pixel of gray intensity v
Tile(w, h, v) == [w |-> w, h |-> h, v |-> v]

\* image.NewRGBA(image.Rect(0, 0, w, h)): Rect orders its corners, so a
\* negative w or h gives the rectangle [w, 0); every pixel starts at zero.
\* pix[x][y] is the pixel at (x, y)
NewRGBA(w, h) ==
    LET x0 == Min(0, w)
        x1 == Max(0, w)
        y0 == Min(0, h)
        y1 == Max(0, h)
    IN  [minX |-> x0, maxX |-> x1, minY |-> y0, maxY |-> y1,
         pix |-> [x \in x0 .. x1 - 1 |-> [y \in y0 .. y1 - 1 |-> ZeroRGBA]]]

\* the value of out before mosaic allocates it
NoCanvas == NewRGBA(0, 0)

\* dst.Bounds().Dx() and Dy()
Dx(img) == img.maxX - img.minX

Dy(img) == img.maxY - img.minY

\* image.Point{x, y}.In(p.Rect)
InRect(img, x, y) ==
    /\ img.minX <= x
    /\ x < img.maxX
    /\ img.minY <= y
    /\ y < img.maxY

\* dst.RGBAAt(x, y): the zero colour outside the rectangle
RGBAAt(img, x, y) ==
    IF InRect(img, x, y) THEN img.pix[x][y] ELSE ZeroRGBA

----------------------------------------------------------------------------
(* sumImages *)

\* r := dstC.R + srcC.R ; if r > 255 { r = 255 } on uint8 operands: the sum
\* is a uint8, so it is reduced modulo 256 before the comparison
SumChannel(d, s) ==
    LET sum == (d + s) % Uint8Mod
    IN  IF sum > ChannelMax THEN ChannelMax ELSE sum

SumRGBA(dstC, srcC) ==
    [R |-> SumChannel(dstC.R, srcC.R), G |-> SumChannel(dstC.G, srcC.G),
     B |-> SumChannel(dstC.B, srcC.B), A |-> SumChannel(dstC.A, srcC.A)]

\* the guard of the continue: the destination pixel lies right of or below
\* the canvas
OutOfCanvas(dst, dstX, dstY) == dstX >= Dx(dst) \/ dstY >= Dy(dst)

\* the tile pixels (x, y) of a call sumImages(dst, src, x0, y0) that are
\* skipped by the continue
SkippedPixels(dst, src, x0, y0) ==
    {q \in (0 .. src.w - 1) \X (0 .. src.h - 1) :
        OutOfCanvas(dst, x0 + q[1], y0 + q[2])}

\* whether a call sumImages(dst, src, x0, y0) sets the canvas pixel (x, y):
\* it is the destination of a tile pixel, is not skipped, and lies in the
\* rectangle (SetRGBA does nothing outside it)
Writes(dst, src, x0, y0, x, y) ==
    /\ x - x0 \in 0 .. src.w - 1
    /\ y - y0 \in 0 .. src.h - 1
    /\ ~OutOfCanvas(dst, x, y)
    /\ InRect(dst, x, y)

\* the canvas after sumImages(dst, src, x0, y0); no two tile pixels share a
\* destination, so the pixel loop is a pointwise update
SumImages(dst, src, x0, y0) ==
    [dst EXCEPT !.pix =
        [x \in dst.minX .. dst.maxX - 1 |->
            [y \in dst.minY .. dst.maxY - 1 |->
                IF Writes(dst, src, x0, y0, x, y)
                THEN SumRGBA(RGBAAt(dst, x, y), SrcRGBA(src.v))
                ELSE dst.pix[x][y]]]]

\* the pixels of the canvas set so far: those of mark, and those this call sets
Mark(mark, dst, src, x0, y0) ==
    [x \in dst.minX .. dst.maxX - 1 |->
        [y \in dst.minY .. dst.maxY - 1 |->
            mark[x][y] \/ Writes(dst, src, x0, y0, x, y)]]

----------------------------------------------------------------------------
(* mosaic: sizes *)

imgW == imgs[1].w

imgH == imgs[1].h

\* a step that forgets the overlap
stepXIgnoringOverlap == imgW

stepX == imgW - overlapX

stepY == imgH - overlapY

\* a canvas width that forgets the last tile's overlap band
totalWWithoutOverlap == stepX * cols

totalW == stepX * cols + overlapX

totalH == stepY * rows + overlapY

\* a count check that rejects too few tiles only
CountMismatchOnlyFewer == Len(imgs) < rows * cols

\* len(imgs) != rows*cols
CountMismatch == Len(imgs) # rows * cols

\* rows that never turn round
LeftToRightAlways(row) == TRUE

\* r%2 == 0 : this row runs left to right
LeftToRight(row) == row % 2 = 0

\* the parity of the columns exchanged
TopToBottomOnEven(col) == col % 2 = 0

\* c%2 != 0 : this column runs top to bottom
TopToBottom(col) == col % 2 # 0

\* a left-to-right loop that stops one column early
LeftRightStopsEarly(col) == col < cols - 1

\* c < cols : the left-to-right loop goes on
LeftRightMore(col) == col < cols

\* c >= 0 : the right-to-left loop goes on
RightLeftMore(col) == col >= 0

\* r < rows : the top-to-bottom loop goes on
TopBottomMore(row) == row < rows

\* r >= 0 : the bottom-to-top loop goes on
BottomTopMore(row) == row >= 0

\* the cases of switch snake
IsHorizontal(mode) == mode = "horizontal"

\* a switch without the empty-string case
IsVerticalNamedOnly(mode) == mode = "vertical"

IsVertical(mode) == mode \in {"vertical", ""}

----------------------------------------------------------------------------
(* Arguments of a run *)

Modes == {"vertical", "horizontal", "", "diagonal"}

Intensities == {100, ChannelMax}

\* n tiles of w x h and intensity v
Uniform(n, w, h, v) == [i \in 1 .. n |-> Tile(w, h, v)]

\* the tile sequences of a run on n tiles of w x h: all alike, or the first
\* one wider, or the last one taller
TileSeqs(n, w, h) ==
    {Uniform(n, w, h, v) : v \in Intensities}
    \cup (IF n = 0 THEN {}
          ELSE {[Uniform(n, w, h, ChannelMax) EXCEPT ![1] = Tile(w + 1, h, ChannelMax)],
                [Uniform(n, w, h, 100) EXCEPT ![n] = Tile(w, h + 1, 100)]})

\* runs on small grids of small tiles
SmallArgs ==
    /\ rows \in 1 .. MaxGrid
    /\ cols \in 1 .. MaxGrid
    /\ overlapX \in -1 .. MaxDim
    /\ overlapY \in -1 .. MaxDim
    /\ snake \in Modes
    /\ \E w \in 1 .. MaxDim, h \in 1 .. MaxDim :
          \/ imgs \in TileSeqs(rows * cols, w, h)
          \/ /\ w = 1
             /\ h = 1
             /\ \E n \in {rows * cols - 1, rows * cols + 1} :
                   imgs = Uniform(n, w, h, ChannelMax)

\* the run of four 100 x 100 tiles on a 2 x 2 grid with overlaps of 20
ExampleArgs ==
    /\ rows = 2
    /\ cols = 2
    /\ overlapX = 20
    /\ overlapY = 20
    /\ snake = "vertical"
    /\ imgs = Uniform(4, 100, 100, 100)

Init ==
    /\ SmallArgs \/ ExampleArgs
    /\ pc = "entry"
    /\ idx = 0
    /\ r = 0
    /\ c = 0
    /\ out = NoCanvas
    /\ err = ""
    /\ ret = "none"
    /\ calls = <<>>
    /\ skipped = 0
    /\ written = <<>>

----------------------------------------------------------------------------
(* mosaic: control flow *)

\* return nil, fmt.Errorf(...)
Fail(e) ==
    /\ pc' = "done"
    /\ err' = e
    /\ ret' = "nil"

\* if len(imgs) != rows*cols { return nil, error }
MosaicCountMismatch ==
    /\ pc = "entry"
    /\ CountMismatch
    /\ Fail("count")
    /\ UNCHANGED <<args, idx, r, c, out, calls, skipped, written>>

\* imgW ... out := image.NewRGBA(...) ; idx := 0
MosaicAllocate ==
    /\ pc = "entry"
    /\ ~CountMismatch
    /\ out' = NewRGBA(totalW, totalH)
    /\ idx' = 0
    /\ written' = [x \in out'.minX .. out'.maxX - 1 |->
                       [y \in out'.minY .. out'.maxY - 1 |-> FALSE]]
    /\ pc' = "switch"
    /\ UNCHANGED <<args, r, c, err, ret, calls, skipped>>

\* case "horizontal": for r := 0
SwitchHorizontal ==
    /\ pc = "switch"
    /\ IsHorizontal(snake)
    /\ r' = 0
    /\ pc' = "h_for_r"
    /\ UNCHANGED <<args, idx, c, out, err, ret, calls, skipped, written>>

\* case "vertical", "": for c := 0
SwitchVertical ==
    /\ pc = "switch"
    /\ ~IsHorizontal(snake)
    /\ IsVertical(snake)
    /\ c' = 0
    /\ pc' = "v_for_c"
    /\ UNCHANGED <<args, idx, r, out, err, ret, calls, skipped, written>>

\* default: return nil, error
SwitchDefault ==
    /\ pc = "switch"
    /\ ~IsHorizontal(snake)
    /\ ~IsVertical(snake)
    /\ Fail("snake")
    /\ UNCHANGED <<args, idx, r, c, out, calls, skipped, written>>

\* x := c * stepX ; y := r * stepY ; sumImages(out, imgs[idx], x, y) ; idx++
Place ==
    LET x == c * stepX
        y == r * stepY
        src == imgs[idx + 1]
    IN  /\ out' = SumImages(out, src, x, y)
        /\ skipped' = skipped + Cardinality(SkippedPixels(out, src, x, y))
        /\ written' = Mark(written, out, src, x, y)
        /\ calls' = Append(calls, [idx |-> idx, x |-> x, y |-> y, row |-> r, col |-> c])
        /\ idx' = idx + 1

\* for r < rows: if r%2 == 0 { for c := 0 } else { for c := cols - 1 }
HRowEnter ==
    /\ pc = "h_for_r"
    /\ r < rows
    /\ IF LeftToRight(r)
       THEN c' = 0 /\ pc' = "h_lr"
       ELSE c' = cols - 1 /\ pc' = "h_rl"
    /\ UNCHANGED <<args, idx, r, out, err, ret, calls, skipped, written>>

\* the loop over the rows ends
HRowExit ==
    /\ pc = "h_for_r"
    /\ ~(r < rows)
    /\ pc' = "return"
    /\ UNCHANGED <<args, idx, r, c, out, err, ret, calls, skipped, written>>

\* left to right: for c < cols ; c++
HLeftRight ==
    /\ pc = "h_lr"
    /\ LeftRightMore(c)
    /\ Place
    /\ c' = c + 1
    /\ UNCHANGED <<args, pc, r, err, ret>>

\* right to left: for c >= 0 ; c--
HRightLeft ==
    /\ pc = "h_rl"
    /\ RightLeftMore(c)
    /\ Place
    /\ c' = c - 1
    /\ UNCHANGED <<args, pc, r, err, ret>>

\* the loop over the columns of a row ends ; r++
HRowDone ==
    /\ \/ pc = "h_lr" /\ ~LeftRightMore(c)
       \/ pc = "h_rl" /\ ~RightLeftMore(c)
    /\ r' = r + 1
    /\ pc' = "h_for_r"
    /\ UNCHANGED <<args, idx, c, out, err, ret, calls, skipped, written>>

\* for c < cols: if c%2 != 0 { for r := 0 } else { for r := rows - 1 }
VColEnter ==
    /\ pc = "v_for_c"
    /\ c < cols
    /\ IF TopToBottom(c)
       THEN r' = 0 /\ pc' = "v_tb"
       ELSE r' = rows - 1 /\ pc' = "v_bt"
    /\ UNCHANGED <<args, idx, c, out, err, ret, calls, skipped, written>>

\* the loop over the columns ends
VColExit ==
    /\ pc = "v_for_c"
    /\ ~(c < cols)
    /\ pc' = "return"
    /\ UNCHANGED <<args, idx, r, c, out, err, ret, calls, skipped, written>>

\* top to bottom: for r < rows ; r++
VTopBottom ==
    /\ pc = "v_tb"
    /\ TopBottomMore(r)
    /\ Place
    /\ r' = r + 1
    /\ UNCHANGED <<args, pc, c, err, ret>>

\* bottom to top: for r >= 0 ; r--
VBottomTop ==
    /\ pc = "v_bt"
    /\ BottomTopMore(r)
    /\ Place
    /\ r' = r - 1
    /\ UNCHANGED <<args, pc, c, err, ret>>

\* the loop over the rows of a column ends ; c++
VColDone ==
    /\ \/ pc = "v_tb" /\ ~TopBottomMore(r)
       \/ pc = "v_bt" /\ ~BottomTopMore(r)
    /\ c' = c + 1
    /\ pc' = "v_for_c"
    /\ UNCHANGED <<args, idx, r, out, err, ret, calls, skipped, written>>

\* return out, nil
ReturnOut ==
    /\ pc = "return"
    /\ pc' = "done"
    /\ ret' = "out"
    /\ UNCHANGED <<args, idx, r, c, out, err, calls, skipped, written>>

Next ==
    \/ MosaicCountMismatch
    \/ MosaicAllocate
    \/ SwitchHorizontal
    \/ SwitchVertical
    \/ SwitchDefault
    \/ HRowEnter
    \/ HRowExit
    \/ HLeftRight
    \/ HRightLeft
    \/ HRowDone
    \/ VColEnter
    \/ VColExit
    \/ VTopBottom
    \/ VBottomTop
    \/ VColDone
    \/ ReturnOut

Spec == Init /\ [][Next]_vars

----------------------------------------------------------------------------
(* Properties *)

\* the arguments, read without the definitions of mosaic
TileCountOk == Len(imgs) = rows * cols

SameSize == \A i \in 1 .. Len(imgs) : imgs[i].w = imgs[1].w /\ imgs[i].h = imgs[1].h

Succeeded == pc = "done" /\ ret = "out"

Abs(n) == IF n < 0 THEN -n ELSE n

Grid == (0 .. rows - 1) \X (0 .. cols - 1)

Cell(k) == <<calls[k].row, calls[k].col>>

\* C1 - Placement completeness: the calls of sumImages use the tile indices
\* 0, 1, 2, ... in this order, each at a cell of the grid and no two at the
\* same cell; a run that returns the canvas has made exactly rows*cols calls
\* and has placed exactly one tile at every cell of the grid.
C1_PlacementComplete ==
    /\ \A k \in 1 .. Len(calls) : calls[k].idx = k - 1 /\ Cell(k) \in Grid
    /\ \A j, k \in 1 .. Len(calls) : Cell(j) = Cell(k) => j = k
    /\ Succeeded =>
          /\ Len(calls) = rows * cols
          /\ \A g \in Grid : Cardinality({k \in 1 .. Len(calls) : Cell(k) = g}) = 1

C1_Witness ==
    Succeeded /\ snake = "horizontal" /\ rows = 3 /\ cols = 2 /\ Len(calls) = 6

\* C3 - Snake order: in vertical mode the columns are taken in increasing
\* order, an even column from row rows-1 down to row 0 and an odd column from
\* row 0 up to row rows-1; in horizontal mode the rows are taken in increasing
\* order, an even row from column 0 up to cols-1 and an odd row from column
\* cols-1 down to 0.
VerticalOrder ==
    /\ calls # <<>> => Cell(1) = <<rows - 1, 0>>
    /\ \A k \in 1 .. Len(calls) - 1 :
          LET a == calls[k]
              b == calls[k + 1]
          IN  \/ /\ b.col = a.col
                 /\ b.row = IF a.col % 2 = 0 THEN a.row - 1 ELSE a.row + 1
              \/ /\ b.col = a.col + 1
                 /\ a.row = IF a.col % 2 = 0 THEN 0 ELSE rows - 1
                 /\ b.row = IF b.col % 2 = 0 THEN rows - 1 ELSE 0

HorizontalOrder ==
    /\ calls # <<>> => Cell(1) = <<0, 0>>
    /\ \A k \in 1 .. Len(calls) - 1 :
          LET a == calls[k]
              b == calls[k + 1]
          IN  \/ /\ b.row = a.row
                 /\ b.col = IF a.row % 2 = 0 THEN a.col + 1 ELSE a.col - 1
              \/ /\ b.row = a.row + 1
                 /\ a.col = IF a.row % 2 = 0 THEN cols - 1 ELSE 0
                 /\ b.col = IF b.row % 2 = 0 THEN 0 ELSE cols - 1

C3_SnakeOrder ==
    /\ snake = "vertical" => VerticalOrder
    /\ snake = "horizontal" => HorizontalOrder

C3_Witness ==
    Succeeded /\ snake = "vertical" /\ rows = 3 /\ cols = 3 /\ Len(calls) = 9

\* C9 - Snake adjacency: two tiles placed one after the other lie at cells
\* that differ by exactly 1 in exactly one of row and column.
C9_SnakeAdjacency ==
    \A k \in 1 .. Len(calls) - 1 :
        Abs(calls[k + 1].row - calls[k].row) + Abs(calls[k + 1].col - calls[k].col) = 1

C9_Witness ==
    /\ Succeeded
    /\ rows = 2
    /\ cols = 3
    /\ snake = "horizontal"
    /\ Cell(3) = <<0, 2>>
    /\ Cell(4) = <<1, 2>>

\* C4 (as stated) - in the run of four 100 x 100 tiles on a 2 x 2 grid with
\* overlaps of 20 in vertical mode the canvas is 180 x 180, tile 0 is placed
\* at cell (1,0) with offset (0, 80) and tile 3 at cell (0,1) with offset
\* (80, 0).
IsExample ==
    /\ rows = 2
    /\ cols = 2
    /\ overlapX = 20
    /\ overlapY = 20
    /\ snake = "vertical"
    /\ Len(imgs) = 4
    /\ \A i \in 1 .. 4 : imgs[i].w = 100 /\ imgs[i].h = 100

PlacedAt(k, row, col, x, y) ==
    /\ calls[k].idx = k - 1
    /\ Cell(k) = <<row, col>>
    /\ calls[k].x = x
    /\ calls[k].y = y

C4_ExampleAsStated ==
    (IsExample /\ Succeeded) =>
        /\ Dx(out) = 180 /\ Dy(out) = 180
        /\ PlacedAt(1, 1, 0, 0, 80)
        /\ PlacedAt(4, 0, 1, 80, 0)

\* C4 (amended) - in that run the canvas is 180 x 180, tile 0 is placed at
\* cell (1,0) with offset (0, 80), tile 2 at cell (0,1) with offset (80, 0),
\* and tile 3 at cell (1,1) with offset (80, 80).
C4_Example ==
    (IsExample /\ Succeeded) =>
        /\ Dx(out) = 180 /\ Dy(out) = 180
        /\ out.minX = 0 /\ out.minY = 0
        /\ Len(calls) = 4
        /\ PlacedAt(1, 1, 0, 0, 80)
        /\ PlacedAt(3, 0, 1, 80, 0)
        /\ PlacedAt(4, 1, 1, 80, 80)

C4_Witness == IsExample /\ Succeeded /\ Len(calls) = 4 /\ Cell(4) = <<1, 1>>

\* C5 - Tile count validation: when the number of tiles is not rows*cols,
\* mosaic ends with the count error and returns no canvas, no canvas is
\* allocated, no call of sumImages is made and no pixel is written or skipped.
C5_TileCountValidation ==
    ~TileCountOk =>
        /\ pc \in {"entry", "done"}
        /\ pc = "done" => err = "count" /\ ret = "nil"
        /\ calls = <<>>
        /\ out = NoCanvas
        /\ written = <<>>
        /\ skipped = 0

C5_Witness ==
    pc = "done" /\ err = "count" /\ ret = "nil" /\ Len(imgs) = 5 /\ rows = 2 /\ cols = 2

\* C8 - Scan modes: with a matching tile count, a mode other than "vertical",
\* "horizontal" and "" ends with the scan mode error, returns no canvas and
\* makes no call of sumImages; the mode "" makes the calls (tile index, pixel
\* offset) of the vertical snake, the same ones the mode "vertical" makes, and
\* returns the canvas.
VerticalCall(k) ==
    LET col == (k - 1) \div rows
        pos == (k - 1) % rows
        row == IF col % 2 = 0 THEN rows - 1 - pos ELSE pos
    IN  <<k - 1, col * (imgs[1].w - overlapX), row * (imgs[1].h - overlapY)>>

C8_ScanModes ==
    /\ (TileCountOk /\ snake \notin {"vertical", "horizontal", ""}) =>
          /\ calls = <<>>
          /\ ret # "out"
          /\ pc \in {"entry", "switch", "done"}
          /\ pc = "done" => err = "snake" /\ ret = "nil"
    /\ (TileCountOk /\ snake \in {"", "vertical"}) =>
          /\ \A k \in 1 .. Len(calls) :
                <<calls[k].idx, calls[k].x, calls[k].y>> = VerticalCall(k)
          /\ pc = "done" => Succeeded /\ err = "" /\ Len(calls) = rows * cols

C8_Witness ==
    Succeeded /\ snake = "" /\ rows = 2 /\ cols = 2 /\ Len(calls) = 4

\* C10 - Exact tiling: with rows*cols tiles of one size W x H and overlaps
\* 0 <= overlapX < W, 0 <= overlapY < H, the canvas is (W-overlapX)*cols +
\* overlapX wide and (H-overlapY)*rows + overlapY high, every tile is placed
\* at (col*(W-overlapX), row*(H-overlapY)) with its rectangle inside the
\* canvas, sumImages never skips a pixel, and a returned canvas has every
\* pixel written.
ValidGrid ==
    /\ TileCountOk
    /\ SameSize
    /\ 0 <= overlapX /\ overlapX < imgs[1].w
    /\ 0 <= overlapY /\ overlapY < imgs[1].h

C10_ExactTiling ==
    (ValidGrid /\ pc # "entry") =>
        LET W == imgs[1].w
            H == imgs[1].h
        IN  /\ out.minX = 0 /\ out.maxX = (W - overlapX) * cols + overlapX
            /\ out.minY = 0 /\ out.maxY = (H - overlapY) * rows + overlapY
            /\ \A k \in 1 .. Len(calls) :
                  /\ calls[k].x = calls[k].col * (W - overlapX)
                  /\ calls[k].y = calls[k].row * (H - overlapY)
                  /\ 0 <= calls[k].x /\ calls[k].x + W <= out.maxX
                  /\ 0 <= calls[k].y /\ calls[k].y + H <= out.maxY
            /\ skipped = 0
            /\ Succeeded =>
                  \A x \in 0 .. out.maxX - 1 : \A y \in 0 .. out.maxY - 1 : written[x][y]

C10_Witness ==
    /\ ValidGrid
    /\ Succeeded
    /\ rows = 2 /\ cols = 3
    /\ imgs[1].w = 2 /\ imgs[1].h = 2
    /\ overlapX = 1 /\ overlapY = 1

\* the sum of the intensities of the tiles composited so far over (x, y),
\* and the number of those tiles
RECURSIVE Contribution(_, _, _)
Contribution(k, x, y) ==
    IF k = 0 THEN 0
    ELSE LET t == imgs[calls[k].idx + 1]
             over == /\ x - calls[k].x \in 0 .. t.w - 1
                     /\ y - calls[k].y \in 0 .. t.h - 1
         IN  Contribution(k - 1, x, y) + (IF over THEN t.v ELSE 0)

RECURSIVE Layers(_, _, _)
Layers(k, x, y) ==
    IF k = 0 THEN 0
    ELSE LET t == imgs[calls[k].idx + 1]
             over == /\ x - calls[k].x \in 0 .. t.w - 1
                     /\ y - calls[k].y \in 0 .. t.h - 1
         IN  Layers(k - 1, x, y) + (IF over THEN 1 ELSE 0)

\* C2 - Sum saturation: every channel of every canvas pixel holds
\* min(255, sum of the values composited over it): the colour channels the
\* saturated sum of the tiles' intensities, the alpha channel the saturated
\* sum of their opaque alphas.
C2_SumSaturates ==
    \A x \in out.minX .. out.maxX - 1 : \A y \in out.minY .. out.maxY - 1 :
        LET px == out.pix[x][y]
            sum == Min(ChannelMax, Contribution(Len(calls), x, y))
        IN  /\ px.R = sum /\ px.G = sum /\ px.B = sum
            /\ px.A = Min(ChannelMax, ChannelMax * Layers(Len(calls), x, y))

\* C6 - Tile size validation: with rows*cols tiles that are not all of one
\* size, no tile is composited and no canvas is returned.
C6_TileSizeValidation ==
    (TileCountOk /\ ~SameSize) => calls = <<>> /\ ret # "out"

\* C7 - Dimension validation: with a non-positive step or a non-positive
\* canvas width or height, no tile is composited and no canvas is returned.
C7_DimensionValidation ==
    LET sx == imgs[1].w - overlapX
        sy == imgs[1].h - overlapY
    IN  (/\ TileCountOk
         /\ \/ sx <= 0
            \/ sy <= 0
            \/ sx * cols + overlapX <= 0
            \/ sy * rows + overlapY <= 0)
        => calls = <<>> /\ ret # "out"

====
